---- MODULE Spec2Model ----
(***************************************************************************)
(* Music Bingo controller (music_bingo.py): the game session, the playback *)
(* controller, the progress poll, the display window and the background    *)
(* library scan, as one state machine.                                     *)
(*                                                                         *)
(* A song is the dict get_song_info builds from one file; two scans of the *)
(* same file build equal dicts, so a song is identified with its file.     *)
(* Handlers run on the Tk event loop and are atomic; a scan thread         *)
(* interleaves with them between two appends.                              *)
(* The worker's last act, root.after(0, update_library_info), only writes   *)
(* labels and the status bar and is left out, as are the playlist tree and *)
(* the progress bar.                                                       *)
(* Environment: pygame loads and plays every scanned file, and get_busy()  *)
(* is false while the music is paused (pygame 2.0.1 and later), which is   *)
(* what the pause / resume toggle of pause_song relies on.                 *)
(*                                                                         *)
(* Further specifications over the same variables: SettingsSpec (start-up  *)
(* and the settings file), ManagerSpec (library_manager.py), CardSpec (the *)
(* card generator window on a game pool of about one card's size) and      *)
(* DisplaySpec (the display window through a game of MaxPlayed songs).     *)
(***************************************************************************)
EXTENDS Integers, Sequences, FiniteSets, TLC

\* ---- bounds of the model
NumSongs == 2          \* mp3 files of the music folder with readable tags
MaxScans == 2          \* scan threads started in one run
MaxPending == 3        \* pending monitor_progress callbacks
MaxSongsPerGame == 3   \* largest songs-per-game setting tried (75 / 50 in the program)
NumMp3 == 2            \* mp3 files of the folder given to library_manager.py
MaxPlayed == 15        \* songs of the long game the display window is followed through
MaxExtra == 1          \* game pools for cards: 24 - MaxExtra .. 25 + MaxExtra songs
MaxCards == 2          \* largest number of cards generated at once
MaxDraws == 3          \* draws of random.sample followed per card

\* ---- program constants
NumLabels == 10        \* rows of the display window
NumColors == 3         \* red, white, blue
DefaultSongsPerGame == 75   \* self.SONGS_PER_GAME = 75 in __init__
FallbackSongsPerGame == 50  \* settings.get('songs_per_game', 50)
GridSize == 5               \* rows and columns of a card
DefaultNumCards == 10       \* tk.IntVar(value=10)

Songs == 1..NumSongs
BadFile == NumSongs + 1 \* one more mp3 file, whose tags cannot be read
\* the files of the folder, in os.walk order
Folder == <<BadFile>> \o [i \in 1..NumSongs |-> i]
None == 0              \* Python None for current_song
NoText == <<>>         \* the empty label text ""
NotStarted == -1       \* a scan thread that was never started
Threads == 1..MaxScans

VARIABLES
    music_library,      \* list of songs
    library_folder,     \* "" or the chosen folder
    scan_threads,       \* thread -> NotStarted, or number of files walked
    SONGS_PER_GAME,
    current_game_songs, \* the sample, shuffled: pool and play order
    played_songs,
    current_song,
    is_playing,
    game_active,
    controls_enabled,   \* play / pause / stop buttons
    mixer,              \* pygame.mixer.music: stopped, playing, paused, ended
    pending_monitors,   \* root.after(100, monitor_progress) callbacks queued
    display_window,     \* [exists, song_labels]; no window: NoWindow
    outcome,            \* how the most recent event-loop handler ended
    calls,              \* play_next_song calls since the last started game
    settings_file,      \* ~/.music_bingo_settings.json
    card_generator,     \* the CardGenerator window, its last cards and its HTML file
    library_manager     \* the music folder given to library_manager.py and its last run

appVars == <<music_library, library_folder, scan_threads, SONGS_PER_GAME,
             current_game_songs, played_songs, current_song, is_playing,
             game_active, controls_enabled, mixer, pending_monitors,
             display_window, outcome, calls>>

vars == <<appVars, settings_file, card_generator, library_manager>>

\* what the handlers of the main window other than select_music_folder never touch
envVars == <<settings_file, card_generator, library_manager>>

libVars == <<music_library, library_folder, scan_threads>>
gameVars == <<current_game_songs, played_songs, current_song, game_active>>
playVars == <<is_playing, mixer, pending_monitors>>

\* ---- helpers
Range(s) == {s[i] : i \in 1..Len(s)}

Last(s) == s[Len(s)]

IsDistinct(s) == \A i, j \in 1..Len(s) : i # j => s[i] # s[j]

IsPrefix(p, s) == Len(p) <= Len(s) /\ \A i \in 1..Len(p) : p[i] = s[i]

Injections(k, n) == {p \in [1..k -> 1..n] : \A i, j \in 1..k : i # j => p[i] # p[j]}

\* random.sample(population, k): k positions without replacement, in draw order
random_sample(population, k) ==
    {[i \in 1..k |-> population[p[i]]] : p \in Injections(k, Len(population))}

\* random.shuffle(x): any rearrangement of the positions of x
random_shuffle(x) ==
    {[i \in 1..Len(x) |-> x[q[i]]] : q \in Injections(Len(x), Len(x))}

\* pygame.mixer.music.get_busy(): true only while the stream is audibly playing
get_busy(m) == m = "playing"

\* [s for s in self.current_game_songs if s not in self.played_songs]
Unplayed(order, played) == SelectSeq(order, LAMBDA s : s \notin Range(played))

\* ---- display window
colors == <<"red", "white", "blue">>

\* DisplayWindow.setup_ui: ten empty gray labels
InitLabels == [i \in 1..NumLabels |-> [text |-> NoText, foreground |-> "gray"]]

NewDisplayWindow == [exists |-> TRUE, song_labels |-> InitLabels]

\* display_window is None, or its Toplevel was closed: the handlers treat both alike
NoWindow == [exists |-> FALSE, song_labels |-> <<>>]

\* self.display_window and self.display_window.winfo_exists()
DisplayOpen(w) == w.exists

\* last_10 that keeps the first ten songs of a longer list
last_10_from_start(songs) ==
    IF Len(songs) > 10 THEN SubSeq(songs, 1, 10) ELSE songs

last_10(songs) ==
    IF Len(songs) > 10 THEN SubSeq(songs, Len(songs) - 9, Len(songs)) ELSE songs

\* DisplayWindow.update_songs: label i (0-based) gets the (i+1)-th most recent song
update_songs(labels, songs) ==
    LET shown == last_10(songs)
        n == Len(shown)
    IN [l \in 1..NumLabels |->
          IF l <= n
          THEN [text |-> <<Len(songs) - (l - 1), shown[n - (l - 1)]>>,
                foreground |-> colors[((l - 1) % NumColors) + 1]]
          ELSE [labels[l] EXCEPT !.text = NoText]]

\* the guarded push used by new_game and play_next_song
PushDisplay(w, songs) ==
    IF DisplayOpen(w)
    THEN [w EXCEPT !.song_labels = update_songs(w.song_labels, songs)]
    ELSE w

\* ---- progress poll
\* monitor_progress: re-arms itself only while is_playing and the mixer is busy
monitor_progress(playing, m, pending) ==
    IF playing /\ get_busy(m) THEN pending + 1 ELSE pending

\* ---- settings file
\* a settings file that holds a JSON object with the given keys
ObjectFile(keys, folder, n) ==
    [kind |-> "object", keys |-> keys,
     library_folder |-> IF "library_folder" \in keys THEN folder ELSE "",
     songs_per_game |-> IF "songs_per_game" \in keys THEN n ELSE 0]

\* no file ("missing"), a file json.load rejects ("corrupt"), or a file with
\* a JSON value that is no object ("not_object")
OtherFile(kind) ==
    [kind |-> kind, keys |-> {}, library_folder |-> "", songs_per_game |-> 0]

SettingsFiles ==
    {OtherFile(kind) : kind \in {"missing", "corrupt", "not_object"}}
    \cup {ObjectFile(keys, folder, n) :
             keys \in SUBSET {"library_folder", "songs_per_game"},
             folder \in {"", "music"}, n \in 1..MaxSongsPerGame}

\* save_settings: json.dump of both attributes
save_settings(folder, n) ==
    ObjectFile({"library_folder", "songs_per_game"}, folder, n)

\* load_settings on the attributes app: both are taken from a JSON object,
\* each with its .get default; a missing file is skipped and every exception
\* is swallowed, and both leave app as __init__ set it
load_settings(file, app) ==
    IF file.kind = "object"
    THEN [library_folder |-> IF "library_folder" \in file.keys
                             THEN file.library_folder ELSE "",
          SONGS_PER_GAME |-> IF "songs_per_game" \in file.keys
                             THEN file.songs_per_game ELSE FallbackSongsPerGame]
    ELSE app

\* the attributes __init__ sets before it calls load_settings
InitialSettings == [library_folder |-> "", SONGS_PER_GAME |-> DefaultSongsPerGame]

\* ---- card generator window and library manager, before their first use
NoHtml == [written |-> FALSE, cards |-> <<>>, master |-> <<>>]

NoCardGenerator ==
    [exists |-> FALSE, songs |-> <<>>, num_cards |-> 0, free_space |-> FALSE,
     cards |-> <<>>, outcome |-> "none", html |-> NoHtml]

NoFolder == [exists |-> FALSE, files |-> <<>>]

NoRun == [ran |-> FALSE, fix |-> FALSE, list |-> FALSE, found |-> FALSE,
          songs |-> <<>>, fixed_count |-> 0, listed |-> 0, exit_code |-> 0]

\* ---- construction
\* MusicBingoApp.__init__ with the settings file as it is: empty state,
\* settings loaded, and a first scan started when the settings name a folder
MusicBingoApp(file) ==
    LET loaded == load_settings(file, InitialSettings) IN
    /\ music_library = <<>>
    /\ library_folder = loaded.library_folder
    /\ scan_threads = [t \in Threads |->
                         IF t = 1 /\ library_folder # "" THEN 0 ELSE NotStarted]
    /\ SONGS_PER_GAME = loaded.SONGS_PER_GAME
    /\ current_game_songs = <<>>
    /\ played_songs = <<>>
    /\ current_song = None
    /\ is_playing = FALSE
    /\ game_active = FALSE
    /\ controls_enabled = FALSE
    /\ mixer = "stopped"
    /\ pending_monitors = 0
    /\ display_window = NoWindow
    /\ outcome = IF library_folder # "" THEN "scanning" ELSE "none"
    /\ calls = 0

\* the settings files the runs of the game start from: a songs-per-game
\* setting within the bound, with or without a saved folder
GameSettings ==
    {ObjectFile(keys \cup {"songs_per_game"}, "music", n) :
       keys \in SUBSET {"library_folder"}, n \in 1..MaxSongsPerGame}

Init ==
    /\ settings_file \in GameSettings
    /\ MusicBingoApp(settings_file)
    /\ card_generator = NoCardGenerator
    /\ library_manager = [folder |-> NoFolder, run |-> NoRun]

\* ---- library scan
FreeThreads == {t \in Threads : scan_threads[t] = NotStarted}

\* the body of scan_music_folder once a folder is set: drop the library and
\* start one more worker thread
StartScan ==
    /\ FreeThreads # {}
    /\ music_library' = <<>>
    /\ scan_threads' = [scan_threads EXCEPT
                          ![CHOOSE t \in FreeThreads : \A u \in FreeThreads : t <= u] = 0]
    /\ outcome' = "scanning"

scan_music_folder ==
    /\ IF library_folder = ""
       THEN /\ outcome' = "no_folder"
            /\ UNCHANGED <<music_library, scan_threads>>
       ELSE StartScan
    /\ UNCHANGED <<library_folder, SONGS_PER_GAME, gameVars, playVars,
                   controls_enabled, display_window, calls>>
    /\ UNCHANGED envVars

select_music_folder ==
    \E folder \in {"", "music"} :
       IF folder = ""
       THEN /\ outcome' = "none"
            /\ UNCHANGED <<libVars, SONGS_PER_GAME, gameVars, playVars,
                           controls_enabled, display_window, calls, envVars>>
       ELSE /\ library_folder' = folder
            /\ settings_file' = save_settings(folder, SONGS_PER_GAME)
            /\ StartScan
            /\ UNCHANGED <<SONGS_PER_GAME, gameVars, playVars,
                           controls_enabled, display_window, calls,
                           card_generator, library_manager>>

\* get_song_info: the song of the file, or None when reading its tags raises
get_song_info(filepath) == IF filepath = BadFile THEN None ELSE filepath

\* one iteration of the worker's loop over the files of the folder
scan(t) ==
    /\ scan_threads[t] # NotStarted
    /\ scan_threads[t] < Len(Folder)
    /\ LET song_info == get_song_info(Folder[scan_threads[t] + 1]) IN
          music_library' = IF song_info # None
                           THEN Append(music_library, song_info)
                           ELSE music_library
    /\ scan_threads' = [scan_threads EXCEPT ![t] = @ + 1]
    /\ UNCHANGED <<library_folder, SONGS_PER_GAME, gameVars, playVars,
                   controls_enabled, display_window, outcome, calls>>
    /\ UNCHANGED envVars

\* ---- game session
\* InsufficientSongs with the game state reset before the size check
InsufficientSongs_resets_first ==
    /\ played_songs' = <<>>
    /\ current_song' = None
    /\ game_active' = TRUE
    /\ outcome' = "insufficient_songs"
    /\ UNCHANGED <<current_game_songs, controls_enabled, display_window, calls>>

\* new_game, library too small: warn and return
InsufficientSongs ==
    /\ outcome' = "insufficient_songs"
    /\ UNCHANGED <<gameVars, controls_enabled, display_window, calls>>

\* StartGame without the display update at its end
StartGame_keeps_display ==
    /\ played_songs' = <<>>
    /\ current_song' = None
    /\ game_active' = TRUE
    /\ current_game_songs' \in
          UNION {random_shuffle(pool) :
                   pool \in random_sample(music_library, SONGS_PER_GAME)}
    /\ controls_enabled' = TRUE
    /\ outcome' = "new_game"
    /\ calls' = 0
    /\ UNCHANGED display_window

\* new_game, the rest: reset the game state, sample, shuffle, enable the
\* controls, push the (empty) played list to the display window
StartGame ==
    /\ played_songs' = <<>>
    /\ current_song' = None
    /\ game_active' = TRUE
    /\ current_game_songs' \in
          UNION {random_shuffle(pool) :
                   pool \in random_sample(music_library, SONGS_PER_GAME)}
    /\ controls_enabled' = TRUE
    /\ outcome' = "new_game"
    /\ display_window' = PushDisplay(display_window, played_songs')
    /\ calls' = 0

new_game ==
    /\ IF Len(music_library) < SONGS_PER_GAME
       THEN InsufficientSongs
       ELSE StartGame
    /\ UNCHANGED <<libVars, SONGS_PER_GAME, playVars>>
    /\ UNCHANGED envVars

\* NoActiveGame with the return after the message box left out
NoActiveGame_missing_return ==
    /\ outcome' = "game_complete"
    /\ game_active' = FALSE
    /\ UNCHANGED <<current_game_songs, played_songs, current_song,
                   playVars, display_window>>

\* play_next_song, no game active: inform and return
NoActiveGame ==
    /\ outcome' = "no_active_game"
    /\ UNCHANGED <<gameVars, playVars, display_window>>

\* GameComplete with the assignment game_active = False left out
GameComplete_keeps_active ==
    /\ outcome' = "game_complete"
    /\ UNCHANGED <<gameVars, playVars, display_window>>

\* play_next_song, nothing left to play: inform, end the game and return
GameComplete ==
    /\ outcome' = "game_complete"
    /\ game_active' = FALSE
    /\ UNCHANGED <<current_game_songs, played_songs, current_song,
                   playVars, display_window>>

\* StartNextSong as before the display fix: the display window is updated
\* only after the track has ended
StartNextSong_deferred_display ==
    LET unplayed == Unplayed(current_game_songs, played_songs) IN
    /\ pending_monitors < MaxPending
    /\ current_song' = unplayed[1]
    /\ played_songs' = Append(played_songs, current_song')
    /\ mixer' = "playing"
    /\ is_playing' = TRUE
    /\ outcome' = "playing"
    /\ pending_monitors' = monitor_progress(is_playing', mixer', pending_monitors)
    /\ UNCHANGED <<current_game_songs, game_active, display_window>>

\* play_next_song, the rest: stop the running song, take the first unplayed
\* song, play it, push the played list to the display window and start the
\* progress poll
StartNextSong ==
    LET unplayed == Unplayed(current_game_songs, played_songs) IN
    /\ pending_monitors < MaxPending
    /\ current_song' = unplayed[1]
    /\ played_songs' = Append(played_songs, current_song')
    /\ mixer' = "playing"
    /\ is_playing' = TRUE
    /\ display_window' = PushDisplay(display_window, played_songs')
    /\ outcome' = "playing"
    /\ pending_monitors' = monitor_progress(is_playing', mixer', pending_monitors)
    /\ UNCHANGED <<current_game_songs, game_active>>

\* calls counts up to two past the length of the play order
CountCall == IF calls <= Len(current_game_songs) + 1 THEN calls + 1 ELSE calls

play_next_song ==
    /\ controls_enabled
    /\ IF ~game_active
       THEN NoActiveGame
       ELSE IF Unplayed(current_game_songs, played_songs) = <<>>
            THEN GameComplete
            ELSE StartNextSong
    /\ calls' = CountCall
    /\ UNCHANGED <<libVars, SONGS_PER_GAME, controls_enabled>>
    /\ UNCHANGED envVars

\* ---- playback controller
\* pause_song that pauses whenever a song is on and never resumes
pause_song_never_resumes ==
    /\ controls_enabled
    /\ mixer' = IF is_playing /\ mixer \in {"playing", "paused"} THEN "paused" ELSE mixer
    /\ outcome' = "none"
    /\ UNCHANGED <<libVars, SONGS_PER_GAME, gameVars, is_playing,
                   pending_monitors, controls_enabled, display_window, calls>>
    /\ UNCHANGED envVars

pause_song ==
    /\ controls_enabled
    /\ mixer' = IF is_playing
                THEN IF get_busy(mixer) THEN "paused"
                     ELSE IF mixer = "paused" THEN "playing" ELSE mixer
                ELSE mixer
    /\ outcome' = "none"
    /\ UNCHANGED <<libVars, SONGS_PER_GAME, gameVars, is_playing,
                   pending_monitors, controls_enabled, display_window, calls>>
    /\ UNCHANGED envVars

\* stop_song without the call of pygame.mixer.music.stop()
stop_song_skips_mixer ==
    /\ controls_enabled
    /\ is_playing' = FALSE
    /\ outcome' = "none"
    /\ UNCHANGED <<libVars, SONGS_PER_GAME, gameVars, mixer, pending_monitors,
                   controls_enabled, display_window, calls>>
    /\ UNCHANGED envVars

\* stop_song that also forgets the current song
stop_song_clears_current ==
    /\ controls_enabled
    /\ IF is_playing
       THEN /\ mixer' = "stopped"
            /\ is_playing' = FALSE
            /\ current_song' = None
       ELSE UNCHANGED <<mixer, is_playing, current_song>>
    /\ outcome' = "none"
    /\ UNCHANGED <<libVars, SONGS_PER_GAME, current_game_songs, played_songs,
                   game_active, pending_monitors, controls_enabled,
                   display_window, calls>>
    /\ UNCHANGED envVars

\* stop_song that also ends the game
stop_song_ends_game ==
    /\ controls_enabled
    /\ IF is_playing
       THEN /\ mixer' = "stopped"
            /\ is_playing' = FALSE
            /\ game_active' = FALSE
       ELSE UNCHANGED <<mixer, is_playing, game_active>>
    /\ outcome' = "none"
    /\ UNCHANGED <<libVars, SONGS_PER_GAME, current_game_songs, played_songs,
                   current_song, pending_monitors, controls_enabled,
                   display_window, calls>>
    /\ UNCHANGED envVars

stop_song ==
    /\ controls_enabled
    /\ IF is_playing
       THEN /\ mixer' = "stopped"
            /\ is_playing' = FALSE
       ELSE UNCHANGED <<mixer, is_playing>>
    /\ outcome' = "none"
    /\ UNCHANGED <<libVars, SONGS_PER_GAME, gameVars, pending_monitors,
                   controls_enabled, display_window, calls>>
    /\ UNCHANGED envVars

\* a queued root.after(100, self.monitor_progress) callback fires
monitor_tick ==
    /\ pending_monitors > 0
    /\ pending_monitors' = monitor_progress(is_playing, mixer, pending_monitors - 1)
    /\ outcome' = "none"
    /\ UNCHANGED <<libVars, SONGS_PER_GAME, gameVars, is_playing, mixer,
                   controls_enabled, display_window, calls>>
    /\ UNCHANGED envVars

\* the track reaches its end: the mixer goes idle by itself
track_ends ==
    /\ mixer = "playing"
    /\ mixer' = "ended"
    /\ UNCHANGED <<libVars, SONGS_PER_GAME, gameVars, is_playing,
                   pending_monitors, controls_enabled, display_window,
                   outcome, calls>>
    /\ UNCHANGED envVars

\* ---- display window
open_display_window ==
    /\ display_window' = IF DisplayOpen(display_window)
                         THEN display_window
                         ELSE NewDisplayWindow
    /\ outcome' = "none"
    /\ UNCHANGED <<libVars, SONGS_PER_GAME, gameVars, playVars,
                   controls_enabled, calls>>
    /\ UNCHANGED envVars

\* the user closes the display window: winfo_exists() turns false
close_display_window ==
    /\ DisplayOpen(display_window)
    /\ display_window' = NoWindow
    /\ UNCHANGED <<libVars, SONGS_PER_GAME, gameVars, playVars,
                   controls_enabled, outcome, calls>>
    /\ UNCHANGED envVars

Next ==
    \/ select_music_folder
    \/ scan_music_folder
    \/ \E t \in Threads : scan(t)
    \/ new_game
    \/ play_next_song
    \/ pause_song
    \/ stop_song
    \/ monitor_tick
    \/ track_ends
    \/ open_display_window
    \/ close_display_window

Spec == Init /\ [][Next]_vars

\* ======================================================================
\* Start-up and the settings file
\* ======================================================================

\* the application is started (again): __init__ on the settings file as it is
startup ==
    LET loaded == load_settings(settings_file, InitialSettings) IN
    /\ music_library' = <<>>
    /\ library_folder' = loaded.library_folder
    /\ scan_threads' = [t \in Threads |->
                          IF t = 1 /\ loaded.library_folder # "" THEN 0 ELSE NotStarted]
    /\ SONGS_PER_GAME' = loaded.SONGS_PER_GAME
    /\ current_game_songs' = <<>>
    /\ played_songs' = <<>>
    /\ current_song' = None
    /\ is_playing' = FALSE
    /\ game_active' = FALSE
    /\ controls_enabled' = FALSE
    /\ mixer' = "stopped"
    /\ pending_monitors' = 0
    /\ display_window' = NoWindow
    /\ outcome' = IF loaded.library_folder # "" THEN "scanning" ELSE "none"
    /\ calls' = 0
    /\ UNCHANGED envVars

\* the user deletes, damages or edits the settings file between two runs
write_settings_file ==
    /\ \E file \in SettingsFiles : settings_file' = file
    /\ UNCHANGED <<appVars, card_generator, library_manager>>

SettingsInit ==
    /\ settings_file \in SettingsFiles
    /\ MusicBingoApp(settings_file)
    /\ card_generator = NoCardGenerator
    /\ library_manager = [folder |-> NoFolder, run |-> NoRun]

SettingsNext ==
    \/ startup
    \/ write_settings_file
    \/ select_music_folder

SettingsSpec == SettingsInit /\ [][SettingsNext]_vars

\* ======================================================================
\* library_manager.py
\* ======================================================================

\* a file of the folder: "tagged" has title and artist, "untagged" lacks one
\* of them, "locked" lacks one and cannot be written
TagStates == {"tagged", "untagged", "locked"}

MusicFolders ==
    {NoFolder} \cup {[exists |-> TRUE, files |-> f] : f \in [1..NumMp3 -> TagStates]}

\* scan_library: None (here found = FALSE) for a folder that does not exist,
\* else the files with proper tags, in walk order
scan_library(folder) ==
    IF ~folder.exists
    THEN [found |-> FALSE, songs |-> <<>>]
    ELSE [found |-> TRUE,
          songs |-> SelectSeq([i \in 1..Len(folder.files) |-> i],
                              LAMBDA i : folder.files[i] = "tagged")]

\* fix_tags on one file: True when the tags were saved
fix_tags(state) == state # "locked"

\* auto_fix_tags: os.walk of a folder that does not exist yields nothing;
\* every file without proper tags gets tags from its name when it can be saved
auto_fix_tags(folder) ==
    LET todo == {i \in 1..Len(folder.files) :
                   folder.files[i] # "tagged" /\ fix_tags(folder.files[i])}
    IN [folder |-> [folder EXCEPT !.files =
                       [i \in 1..Len(folder.files) |->
                          IF i \in todo THEN "tagged" ELSE folder.files[i]]],
        fixed_count |-> Cardinality(todo)]

\* main: scan, with --fix fix and rescan, recommend, with --list list; main
\* returns and the interpreter ends with exit status 0
main ==
    \E fix \in BOOLEAN, list \in BOOLEAN :
       LET folder == library_manager.folder
           first == scan_library(folder)
           fixed == IF fix THEN auto_fix_tags(folder)
                    ELSE [folder |-> folder, fixed_count |-> 0]
           last == IF fix THEN scan_library(fixed.folder) ELSE first
       IN /\ library_manager' =
                [folder |-> fixed.folder,
                 run |-> [ran |-> TRUE, fix |-> fix, list |-> list,
                          found |-> last.found,
                          songs |-> last.songs,
                          fixed_count |-> fixed.fixed_count,
                          listed |-> IF list /\ last.songs # <<>>
                                     THEN Len(last.songs) ELSE 0,
                          exit_code |-> 0]]
          /\ UNCHANGED <<appVars, settings_file, card_generator>>

\* the user creates, removes or refills the music folder
change_folder ==
    /\ \E folder \in MusicFolders :
          library_manager' = [library_manager EXCEPT !.folder = folder]
    /\ UNCHANGED <<appVars, settings_file, card_generator>>

ManagerInit ==
    /\ settings_file = OtherFile("missing")
    /\ MusicBingoApp(settings_file)
    /\ card_generator = NoCardGenerator
    /\ library_manager \in {[folder |-> folder, run |-> NoRun] : folder \in MusicFolders}

ManagerNext ==
    \/ main
    \/ change_folder

ManagerSpec == ManagerInit /\ [][ManagerNext]_vars

\* ======================================================================
\* The display window through a long game
\* ======================================================================

\* a game of MaxPlayed songs has just been started from a library of
\* MaxPlayed songs whose scan has finished; the display window is open or not
DisplayInit ==
    /\ settings_file = save_settings("music", MaxPlayed)
    /\ music_library = [i \in 1..MaxPlayed |-> i]
    /\ library_folder = "music"
    /\ scan_threads = [t \in Threads |-> IF t = 1 THEN Len(Folder) ELSE NotStarted]
    /\ SONGS_PER_GAME = MaxPlayed
    /\ current_game_songs = music_library
    /\ played_songs = <<>>
    /\ current_song = None
    /\ is_playing = FALSE
    /\ game_active = TRUE
    /\ controls_enabled = TRUE
    /\ mixer = "stopped"
    /\ pending_monitors = 0
    /\ display_window \in {NoWindow, PushDisplay(NewDisplayWindow, <<>>)}
    /\ outcome = "new_game"
    /\ calls = 0
    /\ card_generator = NoCardGenerator
    /\ library_manager = [folder |-> NoFolder, run |-> NoRun]

DisplayNext ==
    \/ play_next_song
    \/ pause_song
    \/ stop_song
    \/ monitor_tick
    \/ track_ends
    \/ open_display_window
    \/ close_display_window

DisplaySpec == DisplayInit /\ [][DisplayNext]_vars

\* ======================================================================
\* Card generator
\* ======================================================================

NoCard == <<>>                 \* create_single_card returned None
FREE == [free |-> TRUE]        \* the "FREE" cell

\* the dict create_single_card builds for a song: title and artist, nothing else
SongCell(song) == [title |-> song, artist |-> song]

\* num_songs = 24 if self.free_space.get() else 25
num_songs(free_space) == IF free_space THEN GridSize * GridSize - 1 ELSE GridSize * GridSize

\* random.sample(population, k), of which only MaxDraws draws are followed:
\* k consecutive positions, wrapping around, from the last position, the
\* first, the second, ...
random_sample_runs(population, k) ==
    LET n == Len(population) IN
    {[i \in 1..k |-> population[((r + i - 1) % n) + 1]] : r \in (n - 1)..(n + MaxDraws - 2)}

\* the grid loop of create_single_card: row-major, song_index not advanced
\* on the centre cell of a card with free space
Grid(selected_songs, free_space) ==
    LET centre == GridSize * (GridSize \div 2) + (GridSize \div 2) + 1 IN
    [row \in 1..GridSize |->
       [col \in 1..GridSize |->
          LET pos == GridSize * (row - 1) + col IN
          IF free_space /\ pos = centre
          THEN FREE
          ELSE SongCell(selected_songs[IF free_space /\ pos > centre
                                       THEN pos - 1 ELSE pos])]]

\* create_single_card: the cards it can return; None after the warning when
\* the pool is too small
create_single_card(songs, free_space) ==
    IF Len(songs) < num_songs(free_space)
    THEN {NoCard}
    ELSE {Grid(selected_songs, free_space) :
            selected_songs \in random_sample_runs(songs, num_songs(free_space))}

\* generate_cards: num_cards independent cards
generate_cards(songs, free_space, num_cards) ==
    [1..num_cards -> create_single_card(songs, free_space)]

\* `if not cards or None in cards: return` with the second test left out
Aborted_only_empty(cards) == cards = <<>>

\* if not cards or None in cards: return
Aborted(cards) == cards = <<>> \/ NoCard \in Range(cards)

\* the cells of a card, row by row
Cells(card) == {card[row][col] : row \in 1..GridSize, col \in 1..GridSize}

\* how the rendering loop of generate_html ends: iterating a None card
\* raises TypeError, cell['number'] raises KeyError on a cell without that key
Render(cards) ==
    IF \E i \in 1..Len(cards) : cards[i] = NoCard THEN "type_error"
    ELSE IF \E i \in 1..Len(cards) : \E cell \in Cells(cards[i]) :
               cell # FREE /\ "number" \notin DOMAIN cell
         THEN "key_error"
         ELSE "rendered"

\* Print Cards of the main window: a CardGenerator on the game pool
print_cards ==
    /\ IF current_game_songs = <<>>
       THEN /\ outcome' = "no_active_game"
            /\ UNCHANGED card_generator
       ELSE /\ outcome' = "none"
            /\ card_generator' =
                  [exists |-> TRUE, songs |-> current_game_songs,
                   num_cards |-> DefaultNumCards, free_space |-> TRUE,
                   cards |-> <<>>, outcome |-> "none",
                   html |-> card_generator.html]
    /\ UNCHANGED <<libVars, SONGS_PER_GAME, gameVars, playVars, controls_enabled,
                   display_window, calls, settings_file, library_manager>>

\* the user sets the spinbox
set_num_cards ==
    /\ card_generator.exists
    /\ \E n \in 0..MaxCards : card_generator' = [card_generator EXCEPT !.num_cards = n]
    /\ UNCHANGED <<appVars, settings_file, library_manager>>

\* the user clicks the FREE space checkbutton
toggle_free_space ==
    /\ card_generator.exists
    /\ card_generator' = [card_generator EXCEPT !.free_space = ~@]
    /\ UNCHANGED <<appVars, settings_file, library_manager>>

\* Generate HTML: the cards, the check, the rendering, the save dialog and
\* the write
generate_html ==
    /\ card_generator.exists
    /\ card_generator.num_cards <= MaxCards
    /\ \E cards \in generate_cards(card_generator.songs, card_generator.free_space,
                                   card_generator.num_cards),
          filename \in {"", "cards.html"} :
          card_generator' =
             IF Aborted(cards)
             THEN [card_generator EXCEPT
                     !.cards = cards,
                     !.outcome = IF cards = <<>> THEN "no_cards" ELSE "not_enough_songs"]
             ELSE IF Render(cards) # "rendered"
                  THEN [card_generator EXCEPT !.cards = cards, !.outcome = Render(cards)]
                  ELSE IF filename = ""
                       THEN [card_generator EXCEPT !.cards = cards, !.outcome = "cancelled"]
                       ELSE [card_generator EXCEPT
                               !.cards = cards,
                               !.outcome = "written",
                               !.html = [written |-> TRUE, cards |-> cards,
                                         master |-> card_generator.songs]]
    /\ UNCHANGED <<appVars, settings_file, library_manager>>

\* Close: self.window.destroy
close_card_generator ==
    /\ card_generator.exists
    /\ card_generator' = [NoCardGenerator EXCEPT !.html = card_generator.html]
    /\ UNCHANGED <<appVars, settings_file, library_manager>>

\* a game pool of n songs; with repeat its last entry repeats its first, as a
\* library filled by two overlapping scans gives it
GamePool(n, repeat) == [i \in 1..n |-> IF repeat /\ i = n THEN 1 ELSE i]

\* a game has been started on a pool of about one card's size
CardInit ==
    /\ \E n \in (num_songs(TRUE) - MaxExtra)..(num_songs(FALSE) + MaxExtra),
          repeat \in BOOLEAN :
          /\ current_game_songs = GamePool(n, repeat)
          /\ music_library = current_game_songs
          /\ SONGS_PER_GAME = n
          /\ settings_file = save_settings("music", n)
    /\ library_folder = "music"
    /\ scan_threads = [t \in Threads |-> IF t = 1 THEN Len(Folder) ELSE NotStarted]
    /\ played_songs = <<>>
    /\ current_song = None
    /\ is_playing = FALSE
    /\ game_active = TRUE
    /\ controls_enabled = TRUE
    /\ mixer = "stopped"
    /\ pending_monitors = 0
    /\ display_window = NoWindow
    /\ outcome = "new_game"
    /\ calls = 0
    /\ card_generator = NoCardGenerator
    /\ library_manager = [folder |-> NoFolder, run |-> NoRun]

CardNext ==
    \/ print_cards
    \/ set_num_cards
    \/ toggle_free_space
    \/ generate_html
    \/ close_card_generator

CardSpec == CardInit /\ [][CardNext]_vars

\* ======================================================================
\* Claims
\* ======================================================================

\* order with every repeated song dropped, first occurrences kept
Dedup(s) ==
    LET F[i \in 0..Len(s)] ==
          IF i = 0 THEN <<>>
          ELSE IF s[i] \in Range(F[i - 1]) THEN F[i - 1] ELSE Append(F[i - 1], s[i])
    IN F[Len(s)]

NothingLeft == Unplayed(current_game_songs, played_songs) = <<>>

\* a play_next_song call that reaches the playing branch
AdvanceOk == play_next_song /\ game_active /\ ~NothingLeft

\* a new_game call that starts a game
StartGameOk == new_game /\ Len(music_library) >= SONGS_PER_GAME

\* ---- C1
\* C1 as stated: the len(order)-th play_next_song call after a started game
\* leaves played = order and the session inactive; the call after it reports
\* game-complete and leaves played unchanged.
C1_Original ==
    [][play_next_song =>
         /\ calls' = Len(current_game_songs) =>
               played_songs' = current_game_songs /\ ~game_active'
         /\ calls' = Len(current_game_songs) + 1 =>
               outcome' = "game_complete" /\ played_songs' = played_songs]_vars

\* C1 amended: with n the number of distinct songs of order, the n-th
\* play_next_song call after a started game leaves played = order without its
\* repeats and the session still active; the (n+1)-th call reports
\* game-complete, turns the session inactive and leaves played unchanged.
C1_AdvanceThroughOrder ==
    [][play_next_song =>
         LET n == Cardinality(Range(current_game_songs)) IN
         /\ calls' = n =>
               played_songs' = Dedup(current_game_songs) /\ game_active'
         /\ calls' = n + 1 =>
               /\ game_active /\ ~game_active'
               /\ outcome' = "game_complete"
               /\ played_songs' = played_songs
               /\ played_songs' = Dedup(current_game_songs)]_vars

\* a game of several distinct songs played through, the call after refused
C1_Witness ==
    /\ outcome = "game_complete"
    /\ calls = Len(current_game_songs) + 1
    /\ Len(current_game_songs) >= 2
    /\ IsDistinct(current_game_songs)
    /\ played_songs = current_game_songs
    /\ ~game_active

\* ---- C2
\* C2 as stated: game_active turns false exactly when len(played) = len(order)
\* or when stop_song is called mid-game with unplayed songs left.
C2_Original ==
    [][/\ (game_active /\ ~game_active') =>
             \/ Len(played_songs') = Len(current_game_songs')
             \/ (stop_song /\ ~NothingLeft)
       /\ (game_active /\ Len(played_songs') = Len(current_game_songs')) =>
             ~game_active'
       /\ (stop_song /\ game_active /\ played_songs # <<>> /\ ~NothingLeft) =>
             ~game_active']_vars

\* C2 amended: game_active turns false exactly when play_next_song is called
\* on an active game with no unplayed song left; stop_song leaves it as it
\* is, and play_next_song on an active game with songs left plays one.
C2_ActiveTurnsFalse ==
    [][/\ (game_active /\ ~game_active') =>
             (play_next_song /\ NothingLeft /\ outcome' = "game_complete")
       /\ (play_next_song /\ game_active /\ NothingLeft) => ~game_active'
       /\ stop_song => game_active' = game_active
       /\ AdvanceOk => (outcome' = "playing" /\ game_active')]_vars

\* stopped in the middle of a game: the session is still active
C2_Witness ==
    /\ game_active
    /\ ~is_playing
    /\ mixer = "stopped"
    /\ played_songs # <<>>
    /\ ~NothingLeft

\* ---- C3
\* C3 as stated: played is a prefix of order, never longer than order, and a
\* successful play_next_song appends the first song of order not yet played.
C3_Original ==
    [][/\ IsPrefix(played_songs', current_game_songs')
       /\ Len(played_songs') <= Len(current_game_songs')
       /\ AdvanceOk =>
             /\ current_song' \in Range(current_game_songs)
             /\ current_song' \notin Range(played_songs)
             /\ \E i \in 1..Len(current_game_songs) :
                   /\ current_game_songs[i] = current_song'
                   /\ \A j \in 1..(i - 1) :
                         current_game_songs[j] \in Range(played_songs)
             /\ played_songs' = Append(played_songs, current_song')]_vars

\* ---- C4
\* C4 as stated: current_song is non-null exactly while the last play has not
\* been followed by a stop: a play sets it, stop_song clears it, and nothing
\* else (a new_game in between included) changes whether it is null.
C4_Original ==
    [][/\ AdvanceOk => current_song' # None
       /\ stop_song => current_song' = None
       /\ (current_song # None /\ ~stop_song) => current_song' # None
       /\ (current_song = None /\ ~AdvanceOk) => current_song' = None]_vars

\* C4 amended: current_song is non-null exactly when a song has been played
\* since the last started game: a play sets it to the song appended to
\* played, a started game clears it, and nothing else, stop_song included,
\* changes it.
C4_CurrentSong ==
    [][/\ AdvanceOk => current_song' # None
       /\ StartGameOk => current_song' = None
       /\ stop_song => current_song' = current_song
       /\ current_song' # current_song => (AdvanceOk \/ StartGameOk)
       /\ current_song' = IF played_songs' = <<>> THEN None
                          ELSE Last(played_songs')]_vars

\* after a stop the current song is still set
C4_Witness ==
    /\ ~is_playing
    /\ mixer = "stopped"
    /\ current_song # None
    /\ outcome = "none"

\* ---- C5
\* C5 as stated, in the form a finite run refutes: once the track has ended
\* by itself and no poll callback is pending any more, the controller is
\* Idle (is_playing is false).
C5_Original == (mixer = "ended" /\ pending_monitors = 0) => ~is_playing

\* ---- C6
\* C6: new_game with fewer library songs than SONGS_PER_GAME reports
\* insufficient songs and leaves order, played, active, current song and the
\* display window as they were.
C6_InsufficientSongs ==
    [][(new_game /\ Len(music_library) < SONGS_PER_GAME) =>
          /\ outcome' = "insufficient_songs"
          /\ UNCHANGED <<current_game_songs, played_songs, game_active,
                         current_song, display_window>>]_vars

\* new_game refused in the middle of a game that the display window shows
C6_Witness ==
    /\ outcome = "insufficient_songs"
    /\ game_active
    /\ played_songs # <<>>
    /\ current_song = Last(played_songs)
    /\ DisplayOpen(display_window)
    /\ display_window.song_labels[1].text = <<Len(played_songs), current_song>>

\* ---- C7
\* C7 as stated: a started game has a pool of exactly SONGS_PER_GAME pairwise
\* distinct songs of the library, and the play order is a permutation of it.
C7_Original ==
    [][StartGameOk =>
          /\ Len(current_game_songs') = SONGS_PER_GAME
          /\ IsDistinct(current_game_songs')
          /\ Range(current_game_songs') \subseteq Range(music_library)
          /\ \E pool \in random_sample(music_library, SONGS_PER_GAME) :
                /\ IsDistinct(pool)
                /\ current_game_songs' \in random_shuffle(pool)]_vars

\* ---- C8
\* C8: a started game, from any state, empties played, sets game_active and
\* clears every row of an open display window.
C8_StartGameResets ==
    [][StartGameOk =>
          /\ played_songs' = <<>>
          /\ game_active'
          /\ DisplayOpen(display_window) =>
                /\ DisplayOpen(display_window')
                /\ \A l \in 1..NumLabels :
                      display_window'.song_labels[l].text = NoText]_vars

\* a game started over a running one, the display rows of the old game cleared
C8_Witness ==
    /\ outcome = "new_game"
    /\ played_songs = <<>>
    /\ game_active
    /\ is_playing
    /\ DisplayOpen(display_window)
    /\ display_window.song_labels[1] = [text |-> NoText, foreground |-> "red"]

\* ---- C9
\* C9: a successful play_next_song enters Playing, appends the new current
\* song to played in the same step and, with the display window open, leaves
\* its first row showing that song under its play number.
C9_ShowWhilePlaying ==
    [][AdvanceOk =>
          /\ is_playing' /\ mixer' = "playing"
          /\ current_song' # None
          /\ played_songs' = Append(played_songs, current_song')
          /\ DisplayOpen(display_window) =>
                /\ DisplayOpen(display_window')
                /\ display_window'.song_labels[1].text =
                      <<Len(played_songs'), current_song'>>]_vars

\* the second song of a game playing and on the first row of the display
C9_Witness ==
    /\ outcome = "playing"
    /\ is_playing /\ mixer = "playing"
    /\ Len(played_songs) = 2
    /\ DisplayOpen(display_window)
    /\ display_window.song_labels[1].text = <<2, current_song>>
    /\ display_window.song_labels[2].text = <<1, played_songs[1]>>

\* ---- C10
\* C10: play_next_song without an active game reports no-active-game and
\* changes nothing: not the game, the playback state, the pending polls or
\* the display window.
C10_NoActiveGame ==
    [][(play_next_song /\ ~game_active) =>
          /\ outcome' = "no_active_game"
          /\ UNCHANGED <<current_game_songs, played_songs, current_song,
                         game_active, is_playing, mixer, pending_monitors,
                         display_window>>]_vars

\* play_next_song refused after a completed game
C10_Witness ==
    /\ outcome = "no_active_game"
    /\ ~game_active
    /\ played_songs # <<>>
    /\ calls = Len(current_game_songs) + 2

\* ---- C11
\* C11: stop_song from Playing or Paused stops the audio and clears
\* is_playing; a progress poll that fires while is_playing is false only
\* consumes itself: it does not re-arm and changes neither the game nor the
\* playback state nor the display window.
C11_StopThenTicksNoOp ==
    [][/\ (stop_song /\ is_playing) => (mixer' = "stopped" /\ ~is_playing')
       /\ (monitor_tick /\ ~is_playing) =>
             /\ pending_monitors' = pending_monitors - 1
             /\ UNCHANGED <<gameVars, is_playing, mixer, display_window>>]_vars

\* stopped in a game, and every poll callback of the stopped song gone
C11_Witness ==
    /\ ~is_playing
    /\ mixer = "stopped"
    /\ current_song # None
    /\ pending_monitors = 0

\* ---- C16
RunningScans ==
    {t \in Threads : scan_threads[t] # NotStarted /\ scan_threads[t] < Len(Folder)}

\* the songs of the folder, each once, in walk order
ScannedOnce == SelectSeq(Folder, LAMBDA f : get_song_info(f) # None)

\* C16 as stated: at most one scan worker is running at any time, and when
\* no worker is running after a scan the library holds each readable file of
\* the folder exactly once.
C16_Original ==
    /\ Cardinality(RunningScans) <= 1
    /\ (RunningScans = {} /\ \E t \in Threads : scan_threads[t] # NotStarted) =>
          music_library = ScannedOnce

\* ---- C19
\* C19: pause_song while Playing pauses the audio, pause_song while Paused
\* resumes it, and pause_song never changes played, order, active, the
\* current song or is_playing.
C19_PauseResume ==
    [][pause_song =>
          /\ (is_playing /\ mixer = "playing") => mixer' = "paused"
          /\ (is_playing /\ mixer = "paused") => mixer' = "playing"
          /\ UNCHANGED <<played_songs, current_game_songs, game_active,
                         current_song, is_playing>>]_vars

\* playing again after a pause during which the poll chain ran out
C19_Witness ==
    /\ is_playing
    /\ mixer = "playing"
    /\ pending_monitors = 0
    /\ current_song = Last(played_songs)

\* ---- C20
\* C20 as stated: whenever the controller is Playing with the audio running,
\* a progress poll is pending.
C20_Original == (is_playing /\ mixer = "playing") => pending_monitors > 0

\* ---- C17
\* C17 as stated: a start-up that finds the settings file missing, unparseable
\* or holding no JSON object ends with library_folder = "" and 50 songs per
\* game.
C17_Original ==
    (MusicBingoApp(settings_file) /\ settings_file.kind # "object") =>
        (library_folder = "" /\ SONGS_PER_GAME = FallbackSongsPerGame)

\* ---- C18
\* C18 as stated: a run of library_manager.py on a folder that does not exist
\* ends with exit code 1, whatever --fix and --list are, and fixes no tags.
C18_Original ==
    (library_manager.run.ran /\ ~library_manager.run.found) =>
        (library_manager.run.exit_code = 1 /\ library_manager.run.fixed_count = 0)

\* ---- C12
\* rows as the claim words them, rows counted from 0
RowsAsClaimed(labels, played) ==
    LET len == Len(played)
        shown == IF len < 10 THEN len ELSE 10
    IN \A i \in 0..9 :
          IF i < shown
          THEN /\ labels[i + 1].text = <<len - i, played[len - i]>>
               /\ labels[i + 1].foreground = colors[(i % 3) + 1]
          ELSE labels[i + 1].text = NoText

\* C12: whatever the open display window shows, update_songs with any played
\* list (here every prefix of played_songs, the empty one included) leaves
\* exactly min(10, len) non-empty rows; row i holds the (i+1)-th most recent
\* song with its play position len - i and colour i mod 3, the others are empty.
C12_UpdateSongs ==
    DisplayOpen(display_window) =>
        \A n \in 0..Len(played_songs) :
           LET played == SubSeq(played_songs, 1, n) IN
           RowsAsClaimed(update_songs(display_window.song_labels, played), played)

\* fifteen songs played: the window shows songs 15 down to 6
C12_Witness ==
    /\ DisplayOpen(display_window)
    /\ Len(played_songs) = 15
    /\ display_window.song_labels[1].text = <<15, played_songs[15]>>
    /\ display_window.song_labels[10].text = <<6, played_songs[6]>>
    /\ display_window.song_labels[5].foreground = "white"

\* ---- C13
\* a Generate HTML click with at least one card asked for
GenerateSome == generate_html /\ card_generator.num_cards >= 1

PoolEnough == Len(card_generator.songs) >= num_songs(card_generator.free_space)

IsGrid(card) ==
    /\ Len(card) = 5
    /\ \A row \in 1..5 : Len(card[row]) = 5

\* C13 as stated: Generate HTML on a pool large enough for one card, for
\* N >= 1 cards, ends without error, and the document written to the chosen
\* path holds N 5x5 card tables and the master list of every pool song.
C13_Original ==
    [][(GenerateSome /\ PoolEnough) =>
          /\ card_generator'.outcome \in {"written", "cancelled"}
          /\ card_generator'.outcome = "written" =>
                /\ card_generator'.html.written
                /\ Len(card_generator'.html.cards) = card_generator.num_cards
                /\ \A i \in 1..Len(card_generator'.html.cards) :
                      IsGrid(card_generator'.html.cards[i])
                /\ card_generator'.html.master = card_generator.songs]_vars

\* ---- C14
\* the songs of a card, row-major, the FREE cell left out
CardSongs(card) ==
    LET cells == [pos \in 1..25 |-> card[((pos - 1) \div 5) + 1][((pos - 1) % 5) + 1]]
    IN [i \in 1..Len(SelectSeq(cells, LAMBDA c : c # FREE)) |->
          SelectSeq(cells, LAMBDA c : c # FREE)[i].title]

CardAsClaimed(card, songs, free_space) ==
    /\ IsGrid(card)
    /\ Len(CardSongs(card)) = IF free_space THEN 24 ELSE 25
    /\ Range(CardSongs(card)) \subseteq Range(songs)
    /\ IsDistinct(CardSongs(card))
    /\ \A row \in 1..5, col \in 1..5 :
          (card[row][col] = FREE) <=> (free_space /\ row = 3 /\ col = 3)
    /\ (free_space /\ Len(songs) = 24) =>
          \A s \in Range(songs) :
             Cardinality({i \in 1..Len(CardSongs(card)) : CardSongs(card)[i] = s}) = 1

\* C14 as stated: every card create_single_card returns is a 5x5 grid of 24
\* or 25 pool songs with no song twice, FREE at the centre and nowhere else
\* when free space is on, and every song of a 24-song pool exactly once.
C14_Original ==
    [][GenerateSome =>
          \A i \in 1..Len(card_generator'.cards) :
             card_generator'.cards[i] # NoCard =>
                CardAsClaimed(card_generator'.cards[i], card_generator.songs,
                              card_generator.free_space)]_vars

\* ---- C15
\* C15: Generate HTML for N >= 1 cards on a pool of fewer than 24 songs (free
\* space on) or 25 songs (off) warns of too few songs, gets no grid from any
\* create_single_card call, and returns with the HTML file left as it was.
C15_InsufficientPool ==
    [][(GenerateSome /\ ~PoolEnough) =>
          /\ card_generator'.outcome = "not_enough_songs"
          /\ card_generator'.cards = [i \in 1..card_generator.num_cards |-> NoCard]
          /\ card_generator'.html = card_generator.html]_vars

\* 24 songs, free space off: one song short
C15_Witness ==
    /\ card_generator.exists
    /\ card_generator.outcome = "not_enough_songs"
    /\ Len(card_generator.songs) = 24
    /\ ~card_generator.free_space
    /\ card_generator.cards = <<NoCard, NoCard>>
    /\ ~card_generator.html.written

\* ---- C21
\* C21 as stated: at most one monitor_progress callback is pending in every
\* reachable state.
C21_Original == pending_monitors <= 1

\* ---- C22
\* C22 as stated: while is_playing is true, current_song is set and is the
\* last element of played_songs.
C22_Original ==
    is_playing =>
        /\ current_song # None
        /\ played_songs # <<>>
        /\ current_song = Last(played_songs)

\* ---- C23
\* C23 as stated: an open display window shows the rendering of played_songs:
\* the last ten songs, most recent first, each with its play position and
\* colour, and the other rows empty.
C23_Original ==
    DisplayOpen(display_window) =>
        RowsAsClaimed(display_window.song_labels, played_songs)

====
